---- MODULE Spec2Model ----
(***************************************************************************)
(* Scene playback and recording engine of the Lumina player                *)
(* (src/components/Player.tsx driven by App in src/utils/audioUtils.ts).   *)
(*                                                                         *)
(* The React component is modelled as a state machine.  A handler and the  *)
(* render + effects that its state updates cause form one atomic step:     *)
(* state updates made in one handler are batched, the component re-renders *)
(* and the effects whose dependencies changed run before the next event.   *)
(* Every function created in a render closes over that render's values of *)
(* isPlaying and currentSceneIndex; callbacks that outlive the render      *)
(* (source.onended, setTimeout, the continuation after an await) carry     *)
(* those values with them.  Scene indices are 0-based as in the code.      *)
(* Time is counted in seconds.                                             *)
(*                                                                         *)
(* An await is a suspension point: the call it suspends is kept in calls   *)
(* (or preloads) and its continuation is a step of its own, which other    *)
(* events may precede.  decodeAudioData of audioUtils.ts computes its      *)
(* buffer synchronously, so its promise resolves in the next microtask;    *)
(* the model does not rely on that and lets the decode resolve at any      *)
(* later moment, which is the contract of an async decoder.                *)
(***************************************************************************)
EXTENDS Integers, Sequences, FiniteSets, Bags, TLC

\* ---------------------------------------------------------------- bounds
MaxScenes == 3
CaptureScenes == 2
MaxSources == 2
MaxCalls == 2
MaxPreloads == 1
MaxTimers == 2
MaxRecorders == 2
MaxLoops == 2
MaxItems == 3
MaxSeeks == 1
MaxRetries == 3

\* ------------------------------------------------------ program constants
FallbackDelay == 3
ErrorDelay == 2
\* background-bed gain targets, in hundredths
DuckRest == 5
DuckFloor == 2
\* canvas.captureStream(30)
FrameRate == 30

VARIABLES
  scenes,              \* App: scenes, a sequence of [id, audio, image, effect, dur, text,
                       \* isGeneratingImage, isGeneratingAudio]
  status,              \* App: status (GenerationStep)
  error,               \* App: error (FALSE = null)
  progress,            \* App: progress, the fraction of asset tasks done
  runs,                \* bag of handleGenerate calls suspended at an await
  currentSceneIndex,   \* App: currentSceneIndex (0-based)
  isPlaying,           \* Player: isPlaying
  isMuted,             \* Player: isMuted
  isExporting,         \* App: isExporting
  isKineticMode,       \* Player: isKineticMode (short portrait video)
  voiceSourceRef,      \* Player: voiceSourceRef.current, the node it points to (or NoSource)
  nextAudioBufferRef,  \* Player: nextAudioBufferRef.current (0 = null, else id of the decoded scene)
  sources,             \* bag of the other source nodes that play or have an ended event queued
  calls,               \* bag of playSceneAudio calls suspended at `await decodeAudioData`
  preloads,            \* bag of preloadNextAudio calls suspended at `await decodeAudioData`
  timers,              \* bag of pending setTimeout callbacks
  mediaRecorderRef,    \* Player: mediaRecorderRef.current, the recorder's state (or "null")
  recorders,           \* number of MediaRecorder objects created and not yet finalized
  chunksRef,           \* Player: chunksRef.current (number of buffered chunks)
  destNodeRef,         \* Player: destNodeRef.current (FALSE = null)
  recorderError,       \* TRUE when the recorder of this run stopped on an encoder error
  audioGraph,          \* audio contexts and background-bed nodes created so far
  platform,            \* what the browser does: MediaRecorder support, stop() on an ended
                       \* source, animation frames per second
  canvas,              \* what the capture surface shows: the frame drawn last
                       \* (NoCanvas when the behaviour does not follow the surface)
  frames,              \* render loops of startCanvasAnimation with a callback pending
  retry,               \* the withRetry call under observation (NoRetry when none is followed)
  timed,               \* TRUE when the behaviour tracks the seconds left on each timer
  log,                 \* what playback did so far (NoLog when the behaviour keeps no record)
  lastEvent            \* the handler that produced the current state

vars == <<scenes, status, error, progress, runs, currentSceneIndex, isPlaying, isMuted,
          isExporting, isKineticMode, voiceSourceRef,
          nextAudioBufferRef, sources, calls, preloads, timers,
          mediaRecorderRef, recorders, chunksRef, destNodeRef, recorderError,
          audioGraph, platform, canvas, frames, retry, timed, log, lastEvent>>

AudioKinds == {"ok", "none", "bad"}

\* scene.effect
Effects == {"zoom-in", "zoom-out", "pan-left", "pan-right"}

\* A scene: audio tells whether audioData is missing ("none"), decodes
\* ("ok") or fails to decode ("bad"); image whether imageUrl is missing
\* ("absent"), loads ("ok") or never loads ("broken"); dur is the length of
\* the decoded narration in tenths of a second; text is the caption, a
\* sequence of characters.
MakeScene(id, audio) ==
  [id |-> id, audio |-> audio, image |-> "ok", effect |-> "zoom-in",
   dur |-> IF audio = "none" THEN 0 ELSE 25, text |-> <<"a">>,
   isGeneratingImage |-> FALSE, isGeneratingAudio |-> FALSE]

\* the capture surface before anything was drawn on it
BlankCanvas ==
  [scn |-> 0, effect |-> "none", progress |-> [num |-> 0, den |-> 1],
   scale |-> 0, translateX |-> 0, ticks |-> 0, dur |-> 0, last |-> FALSE,
   caption |-> <<>>]

NoCanvas == [BlankCanvas EXCEPT !.scn = -1]

\* A source node: st is "playing", "pending" (silent, ended event queued) or
\* "done"; scn is the scene it was started for, buf the scene its buffer was
\* decoded from; idx, playing and exp are the values its onended closed over;
\* muted is the isMuted its playSceneAudio call closed over and gain the
\* value of the mainGain node it plays through.
NoSource == [st |-> "null", scn |-> 0, buf |-> 0, idx |-> 0,
             playing |-> FALSE, exp |-> FALSE, stopped |-> FALSE,
             muted |-> FALSE, gain |-> 1]
DoneSource == [NoSource EXCEPT !.st = "done"]

\* The mutable world a handler works on; `ok` turns FALSE when a model bound
\* would be exceeded, which disables the step.
World ==
  [scenes |-> scenes, status |-> status, error |-> error, progress |-> progress,
   runs |-> runs, currentSceneIndex |-> currentSceneIndex,
   isPlaying |-> isPlaying, isMuted |-> isMuted,
   isExporting |-> isExporting, isKineticMode |-> isKineticMode,
   voiceSourceRef |-> voiceSourceRef, nextAudioBufferRef |-> nextAudioBufferRef,
   sources |-> sources, calls |-> calls, preloads |-> preloads, timers |-> timers,
   mediaRecorderRef |-> mediaRecorderRef, recorders |-> recorders,
   chunksRef |-> chunksRef, destNodeRef |-> destNodeRef,
   recorderError |-> recorderError, audioGraph |-> audioGraph, platform |-> platform,
   canvas |-> canvas, frames |-> frames, retry |-> retry,
   timed |-> timed, log |-> log,
   ok |-> TRUE]

NoLog == << <<"off", 0>> >>

\* append an observation to the record, when one is kept
Log(w, kind, i) ==
  IF w.log = NoLog THEN w ELSE [w EXCEPT !.log = Append(@, <<kind, i>>)]

BagAdd(b, e) == b (+) SetToBag({e})
BagRemove(b, e) == b (-) SetToBag({e})

\* scenes[i] with the code's 0-based index
SceneAt(w, i) == w.scenes[i + 1]

\* the scene object with this id
SceneById(w, id) ==
  LET ks == {k \in 1..Len(w.scenes) : w.scenes[k].id = id}
  IN IF ks = {} THEN MakeScene(id, "none") ELSE w.scenes[CHOOSE k \in ks : TRUE]

\* const currentScene = scenes[currentSceneIndex]
currentScene(w) == SceneAt(w, w.currentSceneIndex)

\* the values of the render that a function created in it closes over
Closure(w, isExportRun) ==
  [idx |-> w.currentSceneIndex, playing |-> w.isPlaying, exp |-> isExportRun,
   muted |-> w.isMuted]

Live(n) == n.st \in {"playing", "pending"}

\* AudioScheduledSourceNode.stop(): a playing source falls silent and its
\* ended event is queued; on a source that already ended it does nothing.
stopNode(n) ==
  IF n.st = "playing" THEN [n EXCEPT !.st = "pending", !.stopped = TRUE] ELSE n

\* voiceSourceRef.current = n; the node it pointed to stays in the graph
\* while it plays or has its ended event queued
setVoiceSource(w, n) ==
  IF Live(w.voiceSourceRef)
  THEN IF BagCardinality(w.sources) >= MaxSources - 1
       THEN [w EXCEPT !.ok = FALSE]
       ELSE [w EXCEPT !.sources = BagAdd(@, w.voiceSourceRef), !.voiceSourceRef = n]
  ELSE [w EXCEPT !.voiceSourceRef = n]

\* setTimeout(() => handleNext(isExportRun), delay)
setTimeout(w, cl, delay) ==
  IF BagCardinality(w.timers) >= MaxTimers
  THEN [w EXCEPT !.ok = FALSE]
  ELSE [w EXCEPT !.timers = BagAdd(@, [idx |-> cl.idx, exp |-> cl.exp, delay |-> delay,
                                       left |-> IF w.timed THEN delay ELSE 0])]

\* ensureAudioGraph creating the background bed on every call
ensureAudioGraphNoGuard(w) ==
  [w EXCEPT !.audioGraph = [@ EXCEPT !.bgMusicSourceRef = TRUE, !.target = DuckRest,
                                     !.drones = @ + 1, !.gains = @ + 1]]

\* ensureAudioGraph: the context exists since the mount effect; the drone and
\* its gain node are created if bgMusicSourceRef.current is missing
ensureAudioGraph(w) ==
  IF ~w.audioGraph.bgMusicSourceRef
  THEN [w EXCEPT !.audioGraph = [@ EXCEPT !.bgMusicSourceRef = TRUE, !.target = DuckRest,
                                          !.drones = @ + 1, !.gains = @ + 1]]
  ELSE w

\* if (bgMusicGainRef.current) bgMusicGainRef.current.gain.setTargetAtTime(level, ...)
setBedTarget(w, level) ==
  IF w.audioGraph.bgMusicSourceRef
  THEN [w EXCEPT !.audioGraph = [@ EXCEPT !.target = level]]
  ELSE w

\* stop() raises an error on this platform when the source has already
\* ended or been stopped
StopThrows(w, n) == w.platform.stopThrows /\ n.st \in {"pending", "done"}

\* `if (voiceSourceRef.current) voiceSourceRef.current.stop()` with no
\* try/catch around it: the error of a second stop reaches the caller
stopPreviousUnguarded(w) ==
  [world |-> [w EXCEPT !.voiceSourceRef = stopNode(@)],
   threw |-> StopThrows(w, w.voiceSourceRef)]

\* if (voiceSourceRef.current) { try { voiceSourceRef.current.stop() } catch (e) {} }
stopPrevious(w) ==
  [world |-> IF StopThrows(w, w.voiceSourceRef) THEN w
             ELSE [w EXCEPT !.voiceSourceRef = stopNode(@)],
   threw |-> FALSE]

\* a catch block that logs the error and arms no timer
catchAudioErrorSilent(w, cl) == w

\* catch (e) { if (isPlaying || isExportRun) setTimeout(() => handleNext(isExportRun), 2000) }
catchAudioError(w, cl) ==
  IF cl.playing \/ cl.exp THEN setTimeout(w, cl, ErrorDelay) ELSE w

\* preloadNextAudio decoding the scene it was called for instead of the next one
preloadNextAudioSameIndex(w, index) ==
  IF SceneAt(w, index).audio = "none" THEN w
  ELSE IF BagCardinality(w.preloads) >= MaxPreloads THEN [w EXCEPT !.ok = FALSE]
  ELSE Log([ensureAudioGraph(w) EXCEPT
              !.preloads = BagAdd(@, [buf |-> SceneAt(w, index).id,
                                      audio |-> SceneAt(w, index).audio])],
           "preload", index)

preloadNextAudio(w, index) ==
  LET nextIndex == index + 1 IN
  IF nextIndex >= Len(w.scenes) THEN w
  ELSE IF SceneAt(w, nextIndex).audio = "none" THEN w
  ELSE IF BagCardinality(w.preloads) >= MaxPreloads THEN [w EXCEPT !.ok = FALSE]
  ELSE Log([ensureAudioGraph(w) EXCEPT
              !.preloads = BagAdd(@, [buf |-> SceneAt(w, nextIndex).id,
                                      audio |-> SceneAt(w, nextIndex).audio])],
           "preload", nextIndex)

\* text.split(sep)
RECURSIVE Split(_, _)
Split(text, sep) ==
  LET at == {i \in 1..Len(text) : text[i] = sep} IN
  IF at = {} THEN <<text>>
  ELSE LET i == CHOOSE i \in at : \A j \in at : i <= j
       IN <<SubSeq(text, 1, i - 1)>> \o Split(SubSeq(text, i + 1, Len(text)), sep)

\* text.replace(/\*/g, '')
StripStars(text) == SelectSeq(text, LAMBDA c : c # "*")

\* text.includes(ch)
Includes(text, ch) == \E i \in 1..Len(text) : text[i] = ch

\* text.toUpperCase()
ToUpperCase(text) ==
  [i \in 1..Len(text) |-> CASE text[i] = "a" -> "A" [] text[i] = "b" -> "B" [] OTHER -> text[i]]

\* text.split(/(\*[^*]+\*)/g): the text is cut at every leftmost run of an
\* asterisk, one or more other characters and an asterisk; the runs are kept
RECURSIVE SplitEmphasis(_)
SplitEmphasis(text) ==
  LET closes(i) == {j \in i + 2..Len(text) :
                      text[j] = "*" /\ \A k \in i + 1..j - 1 : text[k] # "*"}
      opens == {i \in 1..Len(text) : text[i] = "*" /\ closes(i) # {}}
  IN IF opens = {} THEN <<text>>
     ELSE LET i == CHOOSE i \in opens : \A k \in opens : i <= k
              j == CHOOSE j \in closes(i) : TRUE
          IN <<SubSeq(text, 1, i - 1), SubSeq(text, i, j)>>
             \o SplitEmphasis(SubSeq(text, j + 1, Len(text)))

\* drawCanvasText: the runs of text it draws, in order, each white or
\* highlighted (where the lines break depends on the font's metrics and is
\* left out)
drawCanvasText(kinetic, text) ==
  IF kinetic
  THEN LET words == Split(text, " ")
       IN [k \in 1..Len(words) |->
             [text |-> StripStars(words[k]), isHighlight |-> Includes(words[k], "*")]]
  ELSE <<[text |-> StripStars(text), isHighlight |-> FALSE]>>

\* renderDOMText: the spans it returns (one text node in subtitle mode)
renderDOMText(kinetic, text) ==
  IF ~kinetic THEN <<[text |-> StripStars(text), isHighlight |-> FALSE]>>
  ELSE LET parts == SplitEmphasis(text)
       IN [k \in 1..Len(parts) |->
             LET part == parts[k] IN
             IF Len(part) > 0 /\ part[1] = "*" /\ part[Len(part)] = "*"
             THEN [text |-> ToUpperCase(SubSeq(part, 2, Len(part) - 1)), isHighlight |-> TRUE]
             ELSE [text |-> part, isHighlight |-> FALSE]]

\* progress = Math.min(elapsed / duration, 1), as a fraction
Progress(elapsed, duration) ==
  [num |-> IF elapsed < duration THEN elapsed ELSE duration, den |-> duration]

\* the switch on scene.effect with zoom-out starting from 1.0
KenBurnsFlatZoomOut(effect, p) ==
  CASE effect = "zoom-in"   -> [scale |-> 100 * p.den + 15 * p.num, translateX |-> 0]
    [] effect = "zoom-out"  -> [scale |-> 100 * p.den - 15 * p.num, translateX |-> 0]
    [] effect = "pan-left"  -> [scale |-> 110 * p.den, translateX |-> 0 - 30 * p.num]
    [] effect = "pan-right" -> [scale |-> 110 * p.den, translateX |-> 0 + 30 * p.num]
    [] OTHER                -> [scale |-> 100 * p.den, translateX |-> 0]

\* the switch on scene.effect in render: scale in hundredths and translateX
\* in pixels, both as numerators over p.den
KenBurns(effect, p) ==
  CASE effect = "zoom-in"   -> [scale |-> 100 * p.den + 15 * p.num, translateX |-> 0]
    [] effect = "zoom-out"  -> [scale |-> 115 * p.den - 15 * p.num, translateX |-> 0]
    [] effect = "pan-left"  -> [scale |-> 110 * p.den, translateX |-> 0 - 30 * p.num]
    [] effect = "pan-right" -> [scale |-> 110 * p.den, translateX |-> 0 + 30 * p.num]
    [] OTHER                -> [scale |-> 100 * p.den, translateX |-> 0]

\* startCanvasAnimation(scene, startTime, duration): the loop is registered
\* and render runs when the image has loaded. A loop counts the animation
\* frames since startTime in elapsed; duration is the buffer's length in
\* animation frames.
startCanvasAnimation(w, scene, dur, cl) ==
  IF w.canvas = NoCanvas THEN w
  ELSE IF scene.image = "absent" THEN w
  ELSE IF Cardinality(w.frames) >= MaxLoops THEN [w EXCEPT !.ok = FALSE]
  ELSE [w EXCEPT !.frames = @ \cup {[scn |-> scene.id, idx |-> cl.idx, image |-> scene.image,
                                     effect |-> scene.effect, text |-> scene.text, dur |-> dur,
                                     duration |-> (dur * w.platform.rafHz) \div 10,
                                     elapsed |-> 0, ticks |-> 0]}]

\* render: one animation frame of loop l
render(w, l) ==
  IF w.mediaRecorderRef # "recording" THEN [w EXCEPT !.frames = @ \ {l}]
  ELSE LET p == Progress(l.elapsed, l.duration)
           t == KenBurns(l.effect, p)
       IN [w EXCEPT !.canvas = [scn |-> l.scn, effect |-> l.effect, progress |-> p,
                                scale |-> t.scale, translateX |-> t.translateX,
                                ticks |-> l.ticks + 1, dur |-> l.dur,
                                last |-> ~(p.num < p.den),
                                caption |-> drawCanvasText(w.isKineticMode, l.text)],
                    !.frames = IF p.num < p.den
                               THEN (@ \ {l}) \cup {[l EXCEPT !.elapsed = @ + 1,
                                                              !.ticks = @ + 1]}
                               ELSE @ \ {l}]

\* a gain that follows the mute switch in a capture run as well
mainGainValueMuted(muted, isExportRun) == IF muted THEN 0 ELSE 1

\* mainGain.gain.value = isMuted && !isExportRun ? 0 : 1.0
mainGainValue(muted, isExportRun) == IF muted /\ ~isExportRun THEN 0 ELSE 1

\* playSceneAudio from `const source = ctx.createBufferSource()` to the end
\* of its try block; cl holds the values the call closed over.
startSource(w, scn, buf, cl) ==
  LET w1 == Log(setVoiceSource(setBedTarget(w, DuckFloor),
                               [st |-> "playing", scn |-> scn, buf |-> buf,
                                idx |-> cl.idx, playing |-> cl.playing,
                                exp |-> cl.exp, stopped |-> FALSE,
                                muted |-> cl.muted,
                                gain |-> mainGainValue(cl.muted, cl.exp)]),
                "start", cl.idx)
      w2 == IF cl.exp
            THEN startCanvasAnimation(w1, SceneById(w1, scn), SceneById(w1, buf).dur, cl)
            ELSE w1
  IN IF ~cl.exp /\ cl.playing THEN preloadNextAudio(w2, cl.idx) ELSE w2

\* playSceneAudio up to its first await
playSceneAudio(w0, scene, isExportRun) ==
  LET cl == Closure(w0, isExportRun)
      w == ensureAudioGraph(w0)
  IN
  IF scene.audio = "none"
  THEN IF cl.playing \/ isExportRun THEN setTimeout(w, cl, FallbackDelay) ELSE w
  ELSE LET r == stopPrevious(w)
           w1 == r.world
       IN
       IF r.threw THEN catchAudioError(w1, cl)
       ELSE IF w1.nextAudioBufferRef # 0
       THEN startSource([w1 EXCEPT !.nextAudioBufferRef = 0], scene.id,
                        w1.nextAudioBufferRef, cl)
       ELSE IF BagCardinality(w1.calls) >= MaxCalls
       THEN [w1 EXCEPT !.ok = FALSE]
       ELSE [w1 EXCEPT !.calls = BagAdd(@, [scn |-> scene.id, audio |-> scene.audio,
                                            idx |-> cl.idx, playing |-> cl.playing,
                                            exp |-> cl.exp, muted |-> cl.muted])]

stopRecording(w) ==
  IF w.mediaRecorderRef = "recording"
  THEN [w EXCEPT !.mediaRecorderRef = "flushing"]
  ELSE w

\* handleNext that forgets onSceneChange(0) at the end of the playlist
handleNextNoReset(w, cl) ==
  IF cl.idx < Len(w.scenes) - 1
  THEN [w EXCEPT !.currentSceneIndex = cl.idx + 1]
  ELSE IF cl.exp
       THEN stopRecording(w)
       ELSE [w EXCEPT !.isPlaying = FALSE]

handleNext(w, cl) ==
  IF cl.idx < Len(w.scenes) - 1
  THEN [w EXCEPT !.currentSceneIndex = cl.idx + 1]
  ELSE IF cl.exp
       THEN stopRecording(w)
       ELSE [w EXCEPT !.isPlaying = FALSE, !.currentSceneIndex = 0]

handlePrev(w) ==
  IF w.currentSceneIndex > 0
  THEN [w EXCEPT !.currentSceneIndex = w.currentSceneIndex - 1]
  ELSE w

\* the set-up condition without the check of mediaRecorderRef.current
NeedsRecorderAtZero(w) == w.currentSceneIndex = 0

\* the condition under which startExportSequence sets the recorder up
NeedsRecorder(w) == w.currentSceneIndex = 0 /\ w.mediaRecorderRef = "null"

\* startExportSequence after the set-up block
playIfRecording(w) ==
  IF w.mediaRecorderRef = "recording"
  THEN playSceneAudio(w, currentScene(w), TRUE)
  ELSE w

\* startExportSequence; when `new MediaRecorder(...)` throws, the async
\* function rejects after destNodeRef.current was assigned and nobody
\* handles the rejection
startExportSequence(w) ==
  IF NeedsRecorder(w)
  THEN LET w1 == [ensureAudioGraph(w) EXCEPT !.destNodeRef = TRUE] IN
       IF w1.platform.encoder # "ok" THEN w1
       ELSE IF w1.recorders >= MaxRecorders THEN [w1 EXCEPT !.ok = FALSE]
       ELSE playIfRecording(Log([w1 EXCEPT !.recorders = @ + 1,
                                           !.mediaRecorderRef = "recording",
                                           !.recorderError = FALSE],
                                "record", w1.currentSceneIndex))
  ELSE playIfRecording(w)

\* useEffect(..., [isExporting, currentSceneIndex])
exportEffect(w) ==
  IF w.isExporting THEN startExportSequence(w) ELSE w

\* useEffect(..., [isPlaying, currentSceneIndex])
playbackEffect(w) ==
  IF w.isPlaying /\ w.currentSceneIndex < Len(w.scenes) /\ ~w.isExporting
  THEN playSceneAudio(w, currentScene(w), FALSE)
  ELSE IF ~w.isPlaying /\ ~w.isExporting
       THEN IF w.voiceSourceRef.st # "null"
            THEN setVoiceSource(stopPrevious(w).world, NoSource)
            ELSE w
       ELSE w

\* Re-render after a batch of state updates: w0 is the world before the
\* handler ran, w the world after it; effects run in declaration order when
\* one of their dependencies changed.
Render(w0, w) ==
  LET idxChanged == w.currentSceneIndex # w0.currentSceneIndex
      wa == IF idxChanged THEN Log(w, "index", w.currentSceneIndex) ELSE w
      wb == IF w.isPlaying # w0.isPlaying
            THEN Log(wa, IF w.isPlaying THEN "play" ELSE "stop", w.currentSceneIndex)
            ELSE wa
      wc == IF w.isExporting # w0.isExporting
            THEN Log(wb, IF w.isExporting THEN "capture" ELSE "idle", w.currentSceneIndex)
            ELSE wb
      w1 == IF idxChanged \/ w.isExporting # w0.isExporting THEN exportEffect(wc) ELSE wc
      w2 == IF idxChanged \/ w.isPlaying # w0.isPlaying THEN playbackEffect(w1) ELSE w1
  IN w2

Apply(w) ==
  /\ w.ok
  /\ scenes' = w.scenes
  /\ status' = w.status
  /\ error' = w.error
  /\ progress' = w.progress
  /\ runs' = w.runs
  /\ currentSceneIndex' = w.currentSceneIndex
  /\ isPlaying' = w.isPlaying
  /\ isMuted' = w.isMuted
  /\ isExporting' = w.isExporting
  /\ isKineticMode' = w.isKineticMode
  /\ voiceSourceRef' = w.voiceSourceRef
  /\ nextAudioBufferRef' = w.nextAudioBufferRef
  /\ sources' = w.sources
  /\ calls' = w.calls
  /\ preloads' = w.preloads
  /\ timers' = w.timers
  /\ mediaRecorderRef' = w.mediaRecorderRef
  /\ recorders' = w.recorders
  /\ chunksRef' = w.chunksRef
  /\ destNodeRef' = w.destNodeRef
  /\ recorderError' = w.recorderError
  /\ audioGraph' = w.audioGraph
  /\ platform' = w.platform
  /\ canvas' = w.canvas
  /\ frames' = w.frames
  /\ retry' = w.retry
  /\ timed' = w.timed
  /\ log' = w.log

\* The handler that ran last: its name, the index and export flag it closed
\* over, whether it is the ended event of a source that was stopped, and the
\* index it found.
Event(name, idx, exp, stopped) ==
  [name |-> name, idx |-> idx, exp |-> exp, stopped |-> stopped,
   from |-> currentSceneIndex]

\* ------------------------------------------------------------- user input

\* the Player renders its controls only when scenes[currentSceneIndex] exists
PlayerShown == currentSceneIndex < Len(scenes)

\* togglePlay (the button is rendered only when not exporting)
togglePlay ==
  /\ PlayerShown
  /\ ~isExporting
  /\ LET w0 == World
         w1 == IF ~isPlaying THEN [w0 EXCEPT !.nextAudioBufferRef = 0] ELSE w0
         w2 == [w1 EXCEPT !.isPlaying = ~isPlaying]
     IN Apply(Render(w0, w2))
  /\ lastEvent' = Event("togglePlay", currentSceneIndex, FALSE, FALSE)

\* the mute button (rendered when not exporting): setIsMuted(!isMuted)
toggleMute ==
  /\ PlayerShown
  /\ ~isExporting
  /\ Apply([World EXCEPT !.isMuted = ~@])
  /\ lastEvent' = Event("mute", currentSceneIndex, FALSE, FALSE)

\* onSceneSelect / shot list click: !isExporting && setCurrentSceneIndex(idx)
SceneSelect(i) ==
  /\ ~isExporting
  /\ i # currentSceneIndex
  /\ LET w0 == Log(World, "seek", i)
     IN Apply(Render(w0, [w0 EXCEPT !.currentSceneIndex = i]))
  /\ lastEvent' = Event("seek", i, FALSE, FALSE)

\* SkipBack button, disabled at index 0 and while exporting
PrevClick ==
  /\ PlayerShown
  /\ ~isExporting
  /\ currentSceneIndex # 0
  /\ LET w0 == World IN Apply(Render(w0, handlePrev(w0)))
  /\ lastEvent' = Event("seek", currentSceneIndex - 1, FALSE, FALSE)

\* SkipForward button, disabled at the last index and while exporting
NextClick ==
  /\ PlayerShown
  /\ ~isExporting
  /\ currentSceneIndex # Len(scenes) - 1
  /\ LET w0 == World IN Apply(Render(w0, handleNext(w0, Closure(w0, FALSE))))
  /\ lastEvent' = Event("seek", currentSceneIndex + 1, FALSE, FALSE)

\* handleExport (status is READY; the button is disabled while exporting)
handleExport ==
  /\ status = "READY"
  /\ ~isExporting
  /\ LET w0 == World
     IN Apply(Render(w0, [w0 EXCEPT !.currentSceneIndex = 0, !.isExporting = TRUE]))
  /\ lastEvent' = Event("export", 0, TRUE, FALSE)

\* the array element `undefined`
Undefined == [MakeScene(0, "none") EXCEPT !.image = "absent"]

\* Array.prototype.splice: a negative start counts from the end, and the
\* start is clamped to the array
SpliceStart(start, len) ==
  IF start < 0
  THEN IF len + start > 0 THEN len + start ELSE 0
  ELSE IF start < len THEN start ELSE len

\* const [moved] = newScenes.splice(fromIndex, 1); newScenes.splice(toIndex, 0, moved)
Splice(s, fromIndex, toIndex) ==
  LET at == SpliceStart(fromIndex, Len(s))
      removed == IF at < Len(s) THEN <<s[at + 1]>> ELSE <<>>
      rest == SubSeq(s, 1, at) \o SubSeq(s, at + 1 + Len(removed), Len(s))
      moved == IF removed = <<>> THEN Undefined ELSE removed[1]
      to == SpliceStart(toIndex, Len(rest))
  IN SubSeq(rest, 1, to) \o <<moved>> \o SubSeq(rest, to + 1, Len(rest))

handleReorder(w, fromIndex, toIndex) ==
  IF toIndex < 0 \/ toIndex >= Len(w.scenes) THEN w
  ELSE [w EXCEPT !.scenes = Splice(@, fromIndex, toIndex),
                 !.currentSceneIndex = IF @ = fromIndex THEN toIndex ELSE @]

\* Timeline onReorder: a scene is moved one place up or down
Reorder(fromIndex, toIndex) ==
  /\ fromIndex \in 0..Len(scenes) - 1
  /\ toIndex \in {fromIndex - 1, fromIndex + 1}
  /\ LET w0 == World IN Apply(Render(w0, handleReorder(w0, fromIndex, toIndex)))
  /\ lastEvent' = Event("reorder", toIndex, FALSE, FALSE)

\* handleReorder called with any pair of indices, in range or not
ReorderCall(fromIndex, toIndex) ==
  /\ Len(scenes) <= MaxScenes
  /\ LET w0 == World IN Apply(Render(w0, handleReorder(w0, fromIndex, toIndex)))
  /\ lastEvent' = Event("reorderCall", toIndex, FALSE, FALSE)

\* { ...s, ...updates }
Merge(scene, updates) ==
  [f \in DOMAIN scene |-> IF f \in DOMAIN updates THEN updates[f] ELSE scene[f]]

\* an update that goes to the place the scene had when the script arrived
\* (ids are handed out in that order): prev.map((s, i) => i === index ? ... : s)
updateSceneStateByIndex(w, id, updates) ==
  [w EXCEPT !.scenes = [k \in 1..Len(@) |->
                          IF k = id THEN Merge(@[k], updates) ELSE @[k]]]

\* updateSceneState: setScenes(prev => prev.map(s => s.id === id ? { ...s, ...updates } : s))
updateSceneState(w, id, updates) ==
  [w EXCEPT !.scenes = [k \in 1..Len(@) |->
                          IF @[k].id = id THEN Merge(@[k], updates) ELSE @[k]]]

\* a handleGenerate call: ids are the scenes of generatedScenes, pos the
\* scene its loop is at, completed is completedCount, pending what it awaits
NewRun == [ids |-> <<>>, pos |-> 0, completed |-> 0, pending |-> {"script"}]

\* setProgress((completedCount / totalTasks) * 100)
setProgress(w, r) ==
  [w EXCEPT !.progress = [num |-> r.completed, den |-> Len(r.ids) * 2]]

\* a loop body that starts the image and the audio request of a scene together
sceneRequestsTogether == {"image", "audio"}

\* what the loop body awaits first: `await generateSceneImage(...)`
sceneRequests == {"image"}

\* the loop body for the scene at pos, up to its first await
beginScene(w, r, pos) ==
  LET r1 == [r EXCEPT !.pos = pos, !.pending = sceneRequests]
  IN [updateSceneState(w, r.ids[pos], [isGeneratingImage |-> TRUE])
        EXCEPT !.runs = BagAdd(BagRemove(@, r), r1)]

\* the head of `for (const scene of generatedScenes)` after the scene at
\* r.pos: the body runs for the next scene, or the loop is over and the
\* call ends with setStatus(READY)
nextScene(w, r) ==
  IF r.pos < Len(r.ids)
  THEN beginScene(w, r, r.pos + 1)
  ELSE [w EXCEPT !.status = "READY", !.runs = BagRemove(@, r)]

\* handleGenerate up to `await generateVideoScript(...)`. With an empty scene
\* list App unmounts the Player: the state and refs of that instance are
\* gone and its audio context is closed; callbacks it left pending stay
\* pending. currentSceneIndex is App state and is not touched.
GenerateStart ==
  /\ status \in {"IDLE", "READY"}
  /\ Apply([World EXCEPT !.error = FALSE, !.status = "SCRIPTING", !.scenes = <<>>,
                         !.progress = [num |-> 0, den |-> 1],
                         !.runs = BagAdd(@, NewRun),
                         !.isExporting = FALSE, !.isPlaying = FALSE, !.isMuted = FALSE,
                         !.voiceSourceRef = NoSource, !.nextAudioBufferRef = 0,
                         !.sources = EmptyBag, !.mediaRecorderRef = "null",
                         !.chunksRef = 0, !.destNodeRef = FALSE,
                         !.audioGraph = [@ EXCEPT !.bgMusicSourceRef = FALSE,
                                                  !.target = DuckRest,
                                                  !.drones = 0, !.gains = 0]])
  /\ lastEvent' = Event("generate", 0, FALSE, FALSE)

\* generateVideoScript resolves with scenes that have no assets yet, each
\* with an effect picked at random (as many as the script has, none
\* included); the Player is mounted again when there is a scene and the
\* asset loop starts
ScriptReady(r, effects) ==
  /\ r \in BagToSet(runs)
  /\ "script" \in r.pending
  /\ LET n == Len(effects)
         generatedScenes == [k \in 1..n |-> [MakeScene(k, "none") EXCEPT
                                               !.image = "absent", !.effect = effects[k]]]
         r1 == [r EXCEPT !.ids = [k \in 1..n |-> generatedScenes[k].id]]
         w1 == [World EXCEPT !.scenes = generatedScenes, !.status = "GENERATING_ASSETS",
                             !.runs = BagAdd(BagRemove(@, r), r1)]
     IN Apply(nextScene(w1, r1))
  /\ lastEvent' = Event("script", 0, FALSE, FALSE)

\* generateVideoScript rejects: setError, setStatus(IDLE)
ScriptFailed(r) ==
  /\ r \in BagToSet(runs)
  /\ "script" \in r.pending
  /\ Apply([World EXCEPT !.error = TRUE, !.status = "IDLE", !.runs = BagRemove(@, r)])
  /\ lastEvent' = Event("scriptFailed", 0, FALSE, FALSE)

\* `await generateSceneImage(...)` resolves with a data URL ("ok") or with
\* the placeholder URL ("broken" when that one does not load), or throws
\* ("threw") and the catch block clears the flag; the loop goes on to
\* `await generateSceneAudio(...)`
ImageSettled(r, url) ==
  /\ r \in BagToSet(runs)
  /\ "image" \in r.pending
  /\ LET id == r.ids[r.pos]
         r1 == [r EXCEPT !.completed = @ + 1,
                         !.pending = (@ \ {"image"}) \cup {"audio"}]
         w1 == IF url = "threw"
               THEN updateSceneState(World, id, [isGeneratingImage |-> FALSE])
               ELSE updateSceneState(World, id, [image |-> url, isGeneratingImage |-> FALSE])
         w2 == updateSceneState(setProgress(w1, r1), id, [isGeneratingAudio |-> TRUE])
     IN Apply([w2 EXCEPT !.runs = BagAdd(BagRemove(@, r), r1)])
  /\ lastEvent' = Event("imageSettled", r.pos, FALSE, FALSE)

\* `await generateSceneAudio(...)` resolves with audio data that decodes
\* ("ok") or not ("bad"), or with the empty string ("none"), or throws
\* ("threw") and the catch block clears the flag; the loop goes on to its
\* 1.5 s pause
AudioSettled(r, audio) ==
  /\ r \in BagToSet(runs)
  /\ "audio" \in r.pending
  /\ "image" \notin r.pending
  /\ LET id == r.ids[r.pos]
         r1 == [r EXCEPT !.completed = @ + 1, !.pending = {"pause"}]
         w1 == IF audio = "threw"
               THEN updateSceneState(World, id, [isGeneratingAudio |-> FALSE])
               ELSE updateSceneState(World, id,
                                     [audio |-> audio, dur |-> IF audio = "none" THEN 0 ELSE 25,
                                      isGeneratingAudio |-> FALSE])
     IN Apply([setProgress(w1, r1) EXCEPT !.runs = BagAdd(BagRemove(@, r), r1)])
  /\ lastEvent' = Event("audioSettled", r.pos, FALSE, FALSE)

\* the 1.5 s pause is over: the loop takes the next scene, or ends with
\* setStatus(READY)
PauseElapsed(r) ==
  /\ r \in BagToSet(runs)
  /\ "pause" \in r.pending
  /\ Apply(nextScene(World, r))
  /\ lastEvent' = Event("pauseElapsed", r.pos, FALSE, FALSE)

\* ------------------------------------------------------------- withRetry

\* withRetry's default number of attempts (retries = 3)
DefaultRetries == 3

\* the delays withRetry is called with: its default and the one of generateSceneImage
DefaultDelay == 2000
ImageDelay == 3000

\* fallbackValue when the argument is left out
NoFallback == "undefined"

\* the fallback values the callers pass
FallbackImage == "https://placehold.co/.../png?text=Visual+Load+Error"
EmptyString == ""

\* what the operation resolves with: a data URL or base64 audio data
Data == "data"

\* message.includes(pat)
IncludesText(text, pat) ==
  \E k \in 1..Len(text) - Len(pat) + 1 : SubSeq(text, k, k + Len(pat) - 1) = pat

\* no error
NoError == [status |-> 0, message |-> <<>>]

\* the errors an operation throws: status is error.status (0 when it has
\* none), message is error.message as a sequence of characters (empty when
\* it has none)
Errors ==
  {[status |-> 429, message |-> <<>>],
   [status |-> 0, message |-> <<"e", "4", "2", "9">>],
   [status |-> 0, message |-> <<"q", "u", "o", "t", "a">>],
   [status |-> 500, message |-> <<"n", "o">>],
   [status |-> 0, message |-> <<"4", "2">>]}

\* const isRateLimit = error?.status === 429 || error?.message?.includes('429')
\*                     || error?.message?.includes('quota')
isRateLimit(e) ==
  \/ e.status = 429
  \/ IncludesText(e.message, <<"4", "2", "9">>)
  \/ IncludesText(e.message, <<"q", "u", "o", "t", "a">>)

\* no call is followed
NoRetry ==
  [caller |-> "none", retries |-> 0, delay |-> 0, fallbackValue |-> NoFallback, i |-> 0,
   awaits |-> "nothing", trace |-> <<>>,
   outcome |-> [kind |-> "none", value |-> NoFallback, error |-> NoError]]

\* what a call did so far: the operation was invoked, it resolved, it threw,
\* a wait began
Did(r, ev, ms, e) ==
  [r EXCEPT !.trace = Append(@, [ev |-> ev, i |-> r.i, ms |-> ms, error |-> e])]

\* `if (fallbackValue)`: an empty string counts as no fallback
hasFallbackTruthy(fallbackValue) == fallbackValue \notin {NoFallback, EmptyString}

\* if (fallbackValue !== undefined)
hasFallback(fallbackValue) == fallbackValue # NoFallback

\* `i === retries` in place of `i === retries - 1`
isLastAttemptOffByOne(i, retries) == i = retries

\* if (i === retries - 1)
isLastAttempt(i, retries) == i = retries - 1

\* the head of the for loop: the operation is invoked while i < retries;
\* after the loop, throw new Error("Unexpected retry loop exit")
loopHead(r) ==
  IF r.i < r.retries
  THEN [Did(r, "invoke", 0, NoError) EXCEPT !.awaits = "operation"]
  ELSE [r EXCEPT !.awaits = "nothing",
                 !.outcome = [kind |-> "unexpected", value |-> NoFallback, error |-> NoError]]

\* withRetry(operation, retries, delay, fallbackValue) up to its first await
withRetry(caller, retries, delay, fallbackValue) ==
  loopHead([NoRetry EXCEPT !.caller = caller, !.retries = retries, !.delay = delay,
                           !.fallbackValue = fallbackValue])

\* the catch block of withRetry
catchRetry(r, e) ==
  IF isRateLimit(e) /\ r.i < r.retries - 1
  THEN [Did(r, "wait", r.delay * 2 ^ r.i, NoError) EXCEPT !.awaits = "wait"]
  ELSE IF isLastAttempt(r.i, r.retries)
  THEN IF hasFallback(r.fallbackValue)
       THEN [r EXCEPT !.awaits = "nothing",
                      !.outcome = [kind |-> "returned", value |-> r.fallbackValue,
                                   error |-> NoError]]
       ELSE [r EXCEPT !.awaits = "nothing",
                      !.outcome = [kind |-> "threw", value |-> NoFallback, error |-> e]]
  ELSE loopHead([r EXCEPT !.i = @ + 1])

\* withRetry is called with arguments of the caller's choice
CallWithRetry(retries, delay, fallbackValue) ==
  /\ retry.awaits = "nothing"
  /\ Apply([World EXCEPT !.retry = withRetry("withRetry", retries, delay, fallbackValue)])
  /\ lastEvent' = Event("withRetry", 0, FALSE, FALSE)

\* generateVideoScript: withRetry(async () => {...})
generateVideoScript ==
  /\ retry.awaits = "nothing"
  /\ Apply([World EXCEPT !.retry = withRetry("generateVideoScript", DefaultRetries,
                                             DefaultDelay, NoFallback)])
  /\ lastEvent' = Event("generateVideoScript", 0, FALSE, FALSE)

\* generateSceneImage: withRetry(async () => {...}, 3, 3000, fallbackImage)
generateSceneImage ==
  /\ retry.awaits = "nothing"
  /\ Apply([World EXCEPT !.retry = withRetry("generateSceneImage", DefaultRetries,
                                             ImageDelay, FallbackImage)])
  /\ lastEvent' = Event("generateSceneImage", 0, FALSE, FALSE)

\* generateSceneAudio: withRetry(async () => {...}, 3, 2000, "")
generateSceneAudio ==
  /\ retry.awaits = "nothing"
  /\ Apply([World EXCEPT !.retry = withRetry("generateSceneAudio", DefaultRetries,
                                             DefaultDelay, EmptyString)])
  /\ lastEvent' = Event("generateSceneAudio", 0, FALSE, FALSE)

\* `return await operation()`: the operation resolves
OperationResolves ==
  /\ retry.awaits = "operation"
  /\ Apply([World EXCEPT !.retry =
              [Did(retry, "ok", 0, NoError) EXCEPT
                 !.awaits = "nothing",
                 !.outcome = [kind |-> "returned", value |-> Data, error |-> NoError]]])
  /\ lastEvent' = Event("resolved", retry.i, FALSE, FALSE)

\* the operation throws e
OperationRejects(e) ==
  /\ retry.awaits = "operation"
  /\ Apply([World EXCEPT !.retry = catchRetry(Did(retry, "error", 0, e), e)])
  /\ lastEvent' = Event("rejected", retry.i, FALSE, FALSE)

\* `await wait(waitTime)` is over: continue
WaitElapsed ==
  /\ retry.awaits = "wait"
  /\ Apply([World EXCEPT !.retry = loopHead([retry EXCEPT !.i = @ + 1])])
  /\ lastEvent' = Event("waited", retry.i, FALSE, FALSE)

\* --------------------------------------------------- asynchronous events

\* `await decodeAudioData(...)` in playSceneAudio resolves
DecodeComplete(c) ==
  /\ c \in BagToSet(calls)
  /\ c.audio = "ok"
  /\ LET w1 == [World EXCEPT !.calls = BagRemove(@, c)]
     IN Apply(startSource(w1, c.scn, c.scn, c))
  /\ lastEvent' = Event("decoded", c.idx, c.exp, FALSE)

\* the decode throws: catch block of playSceneAudio
DecodeFail(c) ==
  /\ c \in BagToSet(calls)
  /\ c.audio = "bad"
  /\ LET w1 == [World EXCEPT !.calls = BagRemove(@, c)]
     IN Apply(catchAudioError(w1, c))
  /\ lastEvent' = Event("decodeFailed", c.idx, c.exp, FALSE)

\* `await decodeAudioData(...)` in preloadNextAudio resolves, or throws and
\* the catch block logs a warning
PreloadComplete(p) ==
  /\ p \in BagToSet(preloads)
  /\ LET w1 == [World EXCEPT !.preloads = BagRemove(@, p)]
     IN Apply(IF p.audio = "ok"
              THEN [w1 EXCEPT !.nextAudioBufferRef = p.buf]
              ELSE Log(w1, "preloadFailed", p.buf))
  /\ lastEvent' = Event(IF p.audio = "ok" THEN "preloaded" ELSE "preloadFailed",
                        p.buf, FALSE, FALSE)

\* the source nodes that exist: the one voiceSourceRef points to, and the others
Nodes ==
  {[ref |-> TRUE, node |-> voiceSourceRef]} \cup
  {[ref |-> FALSE, node |-> n] : n \in BagToSet(sources)}

\* node s.node becomes n (dropped from the graph when n is DoneSource and
\* no ref points to it)
setNode(w, s, n) ==
  IF s.ref THEN [w EXCEPT !.voiceSourceRef = n]
  ELSE IF n.st = "done" THEN [w EXCEPT !.sources = BagRemove(@, s.node)]
  ELSE [w EXCEPT !.sources = BagAdd(BagRemove(@, s.node), n)]

\* a playing source reaches the end of its buffer; its ended event is queued.
\* A render loop started with the source reads the same clock: the buffer
\* cannot end more than one animation frame before the loop sees it end.
SourceFinish(s) ==
  /\ s \in Nodes
  /\ s.node.st = "playing"
  /\ \A l \in frames : (s.node.exp /\ l.idx = s.node.idx /\ l.image = "ok")
                           => l.elapsed + 1 >= l.duration
  /\ Apply(Log(setNode(World, s, [s.node EXCEPT !.st = "pending"]), "end", s.node.idx))
  /\ lastEvent' = Event("finished", s.node.idx, s.node.exp, FALSE)

\* source.onended = () => { if (isPlaying || isExportRun) handleNext(isExportRun) }
OnEnded(s) ==
  /\ s \in Nodes
  /\ s.node.st = "pending"
  /\ LET w0 == World
         w1 == setBedTarget(setNode(w0, s, DoneSource), DuckRest)
         w2 == IF s.node.playing \/ s.node.exp THEN handleNext(w1, s.node) ELSE w1
     IN Apply(Render(w0, w2))
  /\ lastEvent' = Event("ended", s.node.idx, s.node.exp, s.node.stopped)

\* a setTimeout callback runs: () => handleNext(isExportRun)
TimerFire(t) ==
  /\ t \in BagToSet(timers)
  /\ t.left = 0
  /\ LET w0 == World
         w1 == [w0 EXCEPT !.timers = BagRemove(@, t)]
     IN Apply(Render(w0, handleNext(w1, t)))
  /\ lastEvent' = Event("timer", t.idx, t.exp, FALSE)

\* one second passes; a timer that is due runs before time moves on
Tick ==
  /\ timed
  /\ BagToSet(timers) # {}
  /\ \A t \in BagToSet(timers) : t.left > 0
  /\ LET ts == BagToSet(timers)
         dec(t) == [t EXCEPT !.left = @ - 1]
         moved == [u \in {dec(t) : t \in ts} |->
                     timers[CHOOSE t \in ts : dec(t) = u]]
     IN Apply([World EXCEPT !.timers = moved])
  /\ lastEvent' = Event("tick", 0, FALSE, FALSE)

\* an animation frame: the pending callback of loop l runs (the first time
\* as img.onload, or at once when the image is complete)
RenderFrame(l) ==
  /\ l \in frames
  /\ l.image = "ok"
  /\ Apply(render(World, l))
  /\ lastEvent' = Event("frame", l.idx, TRUE, FALSE)

\* recorder.ondataavailable after stop(): if (e.data.size > 0) chunks.push(e.data)
RecorderData ==
  /\ mediaRecorderRef = "flushing"
  /\ \E size \in 0..1 :
       Apply([World EXCEPT !.mediaRecorderRef = "stopping",
                           !.chunksRef = IF size > 0 THEN @ + 1 ELSE @])
  /\ lastEvent' = Event("data", 0, TRUE, FALSE)

\* handleExportComplete
handleExportComplete(w) ==
  [w EXCEPT !.isExporting = FALSE, !.currentSceneIndex = 0]

\* recorder.onstop without the clean-up of the chunk buffer
onstopKeepChunks(w) ==
  LET w1 == Log(w, "download", w.chunksRef)
      w2 == [w1 EXCEPT !.recorders = @ - 1,
                       !.mediaRecorderRef = "null", !.destNodeRef = FALSE]
  IN handleExportComplete(Log(w2, "complete", 0))

\* recorder.onstop: the chunks become one Blob that is downloaded as
\* lumina_project_<time>.webm, then clean-up and onExportComplete()
onstop(w) ==
  LET w1 == Log(w, "download", w.chunksRef)
      w2 == [w1 EXCEPT !.recorders = @ - 1, !.chunksRef = 0,
                       !.mediaRecorderRef = "null", !.destNodeRef = FALSE]
  IN handleExportComplete(Log(w2, "complete", 0))

\* the recorder's stop event
RecorderStop ==
  /\ mediaRecorderRef = "stopping"
  /\ LET w0 == World IN Apply(Render(w0, onstop(w0)))
  /\ lastEvent' = Event("exported", 0, TRUE, FALSE)

\* the encoder fails while recording: the recorder fires error (no handler
\* is registered), becomes inactive and fires dataavailable and stop
EncoderError ==
  /\ mediaRecorderRef = "recording"
  /\ Apply([World EXCEPT !.mediaRecorderRef = "flushing", !.recorderError = TRUE])
  /\ lastEvent' = Event("encoderError", 0, TRUE, FALSE)

\* ------------------------------------------------------------ the machine

\* a browser that supports the recorder and does not complain about a second stop
DefaultPlatform == [encoder |-> "ok", stopThrows |-> FALSE, rafHz |-> 60]

SceneLists(lens, kinds) == UNION {[1..n -> kinds] : n \in lens}

\* the state after the scenes were generated and the Player was mounted
InitOf(sceneLists, clock, record, platforms, surface, modes) ==
  /\ scenes \in sceneLists
  /\ isKineticMode \in modes
  /\ status = "READY"
  /\ error = FALSE
  /\ progress = [num |-> 1, den |-> 1]
  /\ runs = EmptyBag
  /\ currentSceneIndex = 0
  /\ isPlaying = FALSE
  /\ isMuted = FALSE
  /\ isExporting = FALSE
  /\ voiceSourceRef = NoSource
  /\ nextAudioBufferRef = 0
  /\ sources = EmptyBag
  /\ calls = EmptyBag
  /\ preloads = EmptyBag
  /\ timers = EmptyBag
  /\ mediaRecorderRef = "null"
  /\ recorders = 0
  /\ chunksRef = 0
  /\ destNodeRef = FALSE
  /\ recorderError = FALSE
  /\ audioGraph = [contexts |-> 1, bgMusicSourceRef |-> FALSE, drones |-> 0, gains |-> 0,
                   target |-> DuckRest]
  /\ platform \in platforms
  /\ canvas = surface
  /\ frames = {}
  /\ retry = NoRetry
  /\ timed = clock
  /\ log = record
  /\ lastEvent = Event("init", 0, FALSE, FALSE)

InitWith(lists, clock, record, platforms) ==
  InitOf({[k \in 1..Len(a) |-> MakeScene(k, a[k])] : a \in lists},
         clock, record, platforms, NoCanvas, {FALSE})

\* Preview playback: the user's controls and the asynchronous completions
Preview ==
  \/ togglePlay
  \/ \E i \in 0..Len(scenes) - 1 : SceneSelect(i)
  \/ PrevClick
  \/ NextClick
  \/ \E c \in BagToSet(calls) : DecodeComplete(c)
  \/ \E c \in BagToSet(calls) : DecodeFail(c)
  \/ \E p \in BagToSet(preloads) : PreloadComplete(p)
  \/ \E s \in Nodes : SourceFinish(s)
  \/ \E s \in Nodes : OnEnded(s)
  \/ \E t \in BagToSet(timers) : TimerFire(t)

\* The capture run
Capture ==
  \/ handleExport
  \/ RecorderData
  \/ RecorderStop

\* The whole player on a short list
Init == InitWith(SceneLists({CaptureScenes}, AudioKinds), FALSE, NoLog, {DefaultPlatform})

Next == Preview \/ Capture

Spec == Init /\ [][Next]_vars

\* Preview playback alone on a longer list
InitPreview == InitWith(SceneLists({MaxScenes}, AudioKinds), FALSE, NoLog, {DefaultPlatform})

SpecPreview == InitPreview /\ [][Preview]_vars

\* Preview playback with the clock
InitTimed == InitWith(SceneLists({CaptureScenes}, AudioKinds), TRUE, NoLog,
                      {[DefaultPlatform EXCEPT !.stopThrows = b] : b \in BOOLEAN})

NextTimed == Preview \/ Tick

SpecTimed == InitTimed /\ [][NextTimed]_vars

\* End-to-end scenario: playback is started once at index 0 of a three-scene
\* list and the user does nothing else; a record of the run is kept.
StartPlayback ==
  /\ lastEvent.name = "init"
  /\ togglePlay

InitScenario == InitWith(SceneLists({MaxScenes}, AudioKinds), FALSE, <<>>, {DefaultPlatform})

NextScenario ==
  \/ StartPlayback
  \/ \E c \in BagToSet(calls) : DecodeComplete(c)
  \/ \E c \in BagToSet(calls) : DecodeFail(c)
  \/ \E p \in BagToSet(preloads) : PreloadComplete(p)
  \/ \E s \in Nodes : SourceFinish(s)
  \/ \E s \in Nodes : OnEnded(s)
  \/ \E t \in BagToSet(timers) : TimerFire(t)

SpecScenario == InitScenario /\ [][NextScenario]_vars

\* A capture run: the user may start Preview playback first, then requests
\* capture once and does nothing else; a record of the run is kept.
StartCapture ==
  /\ \A k \in 1..Len(log) : log[k][1] # "capture"
  /\ handleExport

Platforms == {[DefaultPlatform EXCEPT !.encoder = e] : e \in {"ok", "unsupported"}}

InitCapture == InitWith(SceneLists({CaptureScenes}, AudioKinds), FALSE, <<>>, Platforms)

NextCapture ==
  \/ StartPlayback
  \/ StartCapture
  \/ \E c \in BagToSet(calls) : DecodeComplete(c)
  \/ \E c \in BagToSet(calls) : DecodeFail(c)
  \/ \E p \in BagToSet(preloads) : PreloadComplete(p)
  \/ \E s \in Nodes : SourceFinish(s)
  \/ \E s \in Nodes : OnEnded(s)
  \/ \E t \in BagToSet(timers) : TimerFire(t)
  \/ RecorderData
  \/ RecorderStop
  \/ EncoderError

SpecCapture == InitCapture /\ [][NextCapture]_vars

\* decodes settle, sources reach their end, queued events and timers are
\* delivered, the recorder delivers its data and stop events
Delivery ==
  /\ WF_vars(\E c \in BagToSet(calls) : DecodeComplete(c))
  /\ WF_vars(\E c \in BagToSet(calls) : DecodeFail(c))
  /\ WF_vars(\E s \in Nodes : SourceFinish(s))
  /\ WF_vars(\E s \in Nodes : OnEnded(s))
  /\ WF_vars(\E t \in BagToSet(timers) : TimerFire(t))
  /\ WF_vars(RecorderData)
  /\ WF_vars(RecorderStop)

\* the capture run by itself
NextCaptureRun ==
  \/ StartCapture
  \/ \E c \in BagToSet(calls) : DecodeComplete(c)
  \/ \E c \in BagToSet(calls) : DecodeFail(c)
  \/ \E s \in Nodes : SourceFinish(s)
  \/ \E s \in Nodes : OnEnded(s)
  \/ \E t \in BagToSet(timers) : TimerFire(t)
  \/ RecorderData
  \/ RecorderStop
  \/ EncoderError

SpecCaptureLive == InitCapture /\ [][NextCaptureRun]_vars /\ Delivery

\* The capture run with its render loops on displays of 30 and 60 frames
\* per second; narrations last 2.5 s or 7 s
Durations == {25, 70}

RafRates == {30, 60}

Looks ==
  {[audio |-> "ok", image |-> "ok", effect |-> e, dur |-> d] : e \in Effects, d \in Durations}
  \cup {[audio |-> "ok", image |-> i, effect |-> "zoom-in", dur |-> 25] : i \in {"absent", "broken"}}
  \cup {[audio |-> "none", image |-> "ok", effect |-> "zoom-in", dur |-> 0]}

InitFrames ==
  InitOf({[k \in 1..CaptureScenes |->
             [MakeScene(k, a[k].audio) EXCEPT !.image = a[k].image, !.effect = a[k].effect,
                                               !.dur = a[k].dur]] : a \in [1..CaptureScenes -> Looks]},
         FALSE, <<>>, {[DefaultPlatform EXCEPT !.rafHz = r] : r \in RafRates}, BlankCanvas,
         {FALSE})

NextFrames ==
  \/ StartCapture
  \/ \E c \in BagToSet(calls) : DecodeComplete(c)
  \/ \E s \in Nodes : SourceFinish(s)
  \/ \E s \in Nodes : OnEnded(s)
  \/ \E t \in BagToSet(timers) : TimerFire(t)
  \/ \E l \in frames : RenderFrame(l)
  \/ RecorderData
  \/ RecorderStop

SpecFrames == InitFrames /\ [][NextFrames]_vars

\* The capture run of a captioned scene followed by a silent one. A caption
\* is made of plain words and of emphasised phrases of one to three words.
Items ==
  {<<"a">>, <<"b">>, <<"*", "a", "*">>, <<"*", "a", " ", "b", "*">>,
   <<"*", "a", " ", "b", " ", "a", "*">>}

RECURSIVE Join(_)
Join(items) ==
  IF Len(items) = 1 THEN items[1] ELSE items[1] \o <<" ">> \o Join(Tail(items))

Texts == {Join(items) : items \in UNION {[1..n -> Items] : n \in 1..MaxItems}}

InitCaption ==
  InitOf({<<[MakeScene(1, "ok") EXCEPT !.text = t], MakeScene(2, "none")>> : t \in Texts},
         FALSE, <<>>, {[DefaultPlatform EXCEPT !.rafHz = FrameRate]}, BlankCanvas, BOOLEAN)

SpecCaption == InitCaption /\ [][NextFrames]_vars

\* The editor: scene selection, reordering and regeneration with the Player
\* at rest
InitApp == InitWith(SceneLists({MaxScenes}, {"ok"}), FALSE, NoLog, {DefaultPlatform})

NextApp ==
  \/ \E i \in 0..Len(scenes) - 1 : SceneSelect(i)
  \/ PrevClick
  \/ NextClick
  \/ \E i \in 0..Len(scenes) - 1 : \E j \in {i - 1, i + 1} : Reorder(i, j)
  \/ GenerateStart
  \/ \E r \in BagToSet(runs) : \E effects \in SceneLists(0..MaxScenes, {"zoom-in"}) :
       ScriptReady(r, effects)
  \/ \E r \in BagToSet(runs) : ScriptFailed(r)
  \/ \E r \in BagToSet(runs) : \E url \in {"ok", "broken"} : ImageSettled(r, url)
  \/ \E r \in BagToSet(runs) : \E audio \in {"ok", "none"} : AudioSettled(r, audio)
  \/ \E r \in BagToSet(runs) : PauseElapsed(r)

SpecApp == InitApp /\ [][NextApp]_vars

\* every request of handleGenerate settles and its pause ends
SpecAppLive ==
  /\ SpecApp
  /\ WF_vars(\E r \in BagToSet(runs) :
               \/ \E effects \in SceneLists(0..MaxScenes, {"zoom-in"}) : ScriptReady(r, effects)
               \/ ScriptFailed(r))
  /\ WF_vars(\E r \in BagToSet(runs) : \E url \in {"ok", "broken"} : ImageSettled(r, url))
  /\ WF_vars(\E r \in BagToSet(runs) : \E audio \in {"ok", "none"} : AudioSettled(r, audio))
  /\ WF_vars(\E r \in BagToSet(runs) : PauseElapsed(r))

\* Preview playback started once at index 0, with a few seeks by the user; a
\* record of the run is kept.
SeekOnce(i) ==
  /\ Cardinality({k \in 1..Len(log) : log[k][1] = "seek"}) < MaxSeeks
  /\ SceneSelect(i)

InitSeek == InitWith(SceneLists({MaxScenes}, {"ok", "bad"}), FALSE, <<>>, {DefaultPlatform})

NextSeek ==
  \/ StartPlayback
  \/ \E i \in 0..Len(scenes) - 1 : SeekOnce(i)
  \/ \E c \in BagToSet(calls) : DecodeComplete(c)
  \/ \E c \in BagToSet(calls) : DecodeFail(c)
  \/ \E p \in BagToSet(preloads) : PreloadComplete(p)
  \/ \E s \in Nodes : SourceFinish(s)
  \/ \E s \in Nodes : OnEnded(s)
  \/ \E t \in BagToSet(timers) : TimerFire(t)

SpecSeek == InitSeek /\ [][NextSeek]_vars

\* handleReorder as a function of its two arguments
NextReorder ==
  \/ \E i \in 0..Len(scenes) - 1 : SceneSelect(i)
  \/ \E i, j \in -2..Len(scenes) + 1 : ReorderCall(i, j)

SpecReorder == InitApp /\ [][NextReorder]_vars

\* Preview playback that the user starts once, then a capture run requested
\* once, with the mute button pressed at any moment in between; scenes with
\* and without narration, a record of the run is kept
InitMute == InitWith(SceneLists({CaptureScenes}, {"ok", "none"}), FALSE, <<>>, {DefaultPlatform})

NextMute ==
  \/ StartPlayback
  \/ toggleMute
  \/ StartCapture
  \/ \E c \in BagToSet(calls) : DecodeComplete(c)
  \/ \E p \in BagToSet(preloads) : PreloadComplete(p)
  \/ \E s \in Nodes : SourceFinish(s)
  \/ \E s \in Nodes : OnEnded(s)
  \/ \E t \in BagToSet(timers) : TimerFire(t)
  \/ RecorderData
  \/ RecorderStop

SpecMute == InitMute /\ [][NextMute]_vars

\* withRetry and its three callers, one call after the other; the operation
\* resolves or throws at every attempt
InitRetry == InitApp

NextRetry ==
  \/ \E n \in 1..MaxRetries : \E d \in {DefaultDelay, ImageDelay} :
       \E f \in {NoFallback, EmptyString, FallbackImage} : CallWithRetry(n, d, f)
  \/ generateVideoScript
  \/ generateSceneImage
  \/ generateSceneAudio
  \/ OperationResolves
  \/ \E e \in Errors : OperationRejects(e)
  \/ WaitElapsed

SpecRetry == InitRetry /\ [][NextRetry]_vars

\* every awaited operation settles and every wait ends
SpecRetryLive ==
  /\ SpecRetry
  /\ WF_vars(OperationResolves \/ \E e \in Errors : OperationRejects(e))
  /\ WF_vars(WaitElapsed)

\* ------------------------------------------------------------- properties

AllNodes == {s.node : s \in Nodes}

\* number of source nodes that are started and not yet stopped or ended
PlayingCount ==
  (IF voiceSourceRef.st = "playing" THEN 1 ELSE 0)
  + BagCardinality([n \in {m \in BagToSet(sources) : m.st = "playing"} |-> sources[n]])

Callback == lastEvent'.name \in {"ended", "timer"}

AllOk == \A k \in 1..Len(scenes) : scenes[k].audio = "ok"

IsPrefix(a, b) == Len(a) <= Len(b) /\ \A k \in 1..Len(a) : a[k] = b[k]

C2_NarrationEndAdvances ==
  [][(/\ Callback
      /\ ~lastEvent'.exp
      /\ ~lastEvent'.stopped
      /\ lastEvent'.idx = currentSceneIndex
      /\ isPlaying
      /\ ~isExporting)
     => IF currentSceneIndex < Len(scenes) - 1
        THEN currentSceneIndex' = currentSceneIndex + 1 /\ isPlaying'
        ELSE currentSceneIndex' = 0 /\ ~isPlaying']_vars

\* C2 witness: scene 0's narration ended by itself while scene 0 was active
\* and playback moved on to scene 1, still Playing.
C2_Witness ==
  /\ lastEvent.name = "ended"
  /\ ~lastEvent.exp
  /\ ~lastEvent.stopped
  /\ lastEvent.idx = 0
  /\ lastEvent.from = 0
  /\ currentSceneIndex = 1
  /\ isPlaying
  /\ ~isExporting

\* C3: while playback is Stopped (paused, not exporting) no end-of-playback
\* callback changes the current index, be it fired by the pause's stop or
\* registered before the pause.
C3_PausedIndexFixed ==
  [][(lastEvent'.name = "ended" /\ ~isPlaying /\ ~isExporting)
     => currentSceneIndex' = currentSceneIndex]_vars

\* C4: while Playing, stopping the previous scene's narration as part of a
\* seek does not itself change the index: the ended event of a source that
\* was stopped leaves the index as the seek set it.
C4_SeekIndexStays ==
  [][(lastEvent'.name = "ended" /\ lastEvent'.stopped /\ isPlaying /\ ~isExporting)
     => currentSceneIndex' = currentSceneIndex]_vars

\* C5: a fallback timer armed for scene i that expires when playback is no
\* longer Playing, or scene i is no longer the active scene, changes neither
\* the index nor the playing flag.
C5_StaleTimerNoEffect ==
  [][(/\ lastEvent'.name = "timer"
      /\ ~lastEvent'.exp
      /\ (~isPlaying \/ isExporting \/ currentSceneIndex # lastEvent'.idx))
     => /\ currentSceneIndex' = currentSceneIndex
        /\ isPlaying' = isPlaying]_vars

\* C6: the buffer a source plays as scene i's narration was decoded from
\* scene i's own audio payload.
C6_OwnBuffer == \A n \in AllNodes : n.st = "playing" => n.buf = n.scn

C8_FallbackHold ==
  [][(/\ Callback
      /\ isPlaying
      /\ ~isExporting
      /\ currentScene(World).audio = "none"
      /\ currentSceneIndex' # currentSceneIndex)
     => /\ lastEvent'.name = "timer"
        /\ lastEvent'.idx = currentSceneIndex
        /\ \A t \in BagToSet(timers) :
             (t.idx = currentSceneIndex /\ ~t.exp) => t.left = 0]_vars

\* the record of a run over three scenes with narration on every scene
ExpectedLog ==
  << <<"play", 0>>, <<"start", 0>>, <<"preload", 1>>, <<"end", 0>>,
     <<"index", 1>>, <<"start", 1>>, <<"preload", 2>>, <<"end", 1>>,
     <<"index", 2>>, <<"start", 2>>, <<"end", 2>>,
     <<"index", 0>>, <<"stop", 0>> >>

\* C9: on a three-scene list with narration on every scene, Preview playback
\* started at index 0 visits 0, 1, 2 and then stops with index 0; exactly
\* two preloads are begun, for indices 1 and 2, each after the prior scene's
\* narration started and before it ended.
C9_ScenarioOne ==
  (AllOk /\ Len(scenes) = 3) =>
    /\ IsPrefix(log, ExpectedLog)
    /\ (lastEvent.name # "init" /\ ~isPlaying)
         => (log = ExpectedLog /\ currentSceneIndex = 0)

\* C9 witness: the run is over and all of it is on record.
C9_Witness == AllOk /\ Len(scenes) = 3 /\ log = ExpectedLog /\ ~isPlaying

\* startExportSequence ran in this step
BeginRequested ==
  isExporting' /\ (~isExporting \/ currentSceneIndex' # currentSceneIndex)

C11_CaptureOwnsIndex ==
  [][(isExporting /\ isExporting' /\ currentSceneIndex' # currentSceneIndex)
     => /\ Callback
        /\ lastEvent'.exp
        /\ lastEvent'.idx = currentSceneIndex
        /\ currentSceneIndex' = currentSceneIndex + 1]_vars

CountLog(l, kind) == Cardinality({k \in 1..Len(l) : l[k][1] = kind})

\* C12: when the last scene's narration or fallback ends in capture mode
\* the recorder is stopped; the recorder's stop event delivers one artifact
\* made of the buffered chunks and signals completion, after which the chunk
\* buffer is empty, recorder and sink references are released and the
\* application is not exporting, at index 0; completion is signalled at
\* most once per recorder.
C12_Finalization ==
  [][/\ (/\ Callback
         /\ lastEvent'.exp
         /\ lastEvent'.idx = Len(scenes) - 1
         /\ mediaRecorderRef = "recording") => mediaRecorderRef' = "flushing"
     /\ lastEvent'.name = "exported"
          => /\ Len(log') >= Len(log) + 2
             /\ log'[Len(log) + 1] = <<"download", chunksRef>>
             /\ log'[Len(log) + 2] = <<"complete", 0>>
             /\ chunksRef' = 0
             /\ mediaRecorderRef' = "null"
             /\ ~destNodeRef'
             /\ ~isExporting'
             /\ currentSceneIndex' = 0
     /\ CountLog(log', "complete") <= CountLog(log', "record")]_vars

\* C12 witness: a run that was not cut short has delivered an artifact with
\* a chunk in it and is back to Idle.
C12_Witness ==
  /\ lastEvent.name = "exported"
  /\ ~recorderError
  /\ \E k \in 1..Len(log) : log[k] = <<"download", 1>>
  /\ CountLog(log, "complete") = 1
  /\ chunksRef = 0
  /\ mediaRecorderRef = "null"
  /\ ~isExporting

\* C13: every capture run that reaches Recording eventually finalizes and
\* returns to Idle, whatever the narration of each scene (present, missing,
\* undecodable), given that decodes settle and that timers, audio-end events
\* and recorder events are delivered.
C13_CaptureFinalizes ==
  (mediaRecorderRef = "recording")
    ~> (mediaRecorderRef = "null" /\ ~isExporting /\ recorders = 0)

\* C13 witness: a run over a scene without narration and a scene whose
\* narration cannot be decoded has finalized without an encoder error.
C13_Witness ==
  /\ lastEvent.name = "exported"
  /\ ~recorderError
  /\ \E k \in 1..Len(scenes) : scenes[k].audio = "none"
  /\ \E k \in 1..Len(scenes) : scenes[k].audio = "bad"
  /\ mediaRecorderRef = "null"
  /\ ~isExporting

\* C14: when the recorder cannot be created, the capture request leaves no
\* partial state: no recorder, no audio sink, no chunks, and the application
\* is not exporting, so that capture can be requested again.
C14_SetupFailureRollsBack ==
  [][(lastEvent'.name = "export" /\ platform.encoder # "ok")
     => /\ mediaRecorderRef' = "null"
        /\ ~destNodeRef'
        /\ chunksRef' = 0
        /\ ~isExporting']_vars

\* C15: when the recorder stopped on an encoder error, its stop event
\* delivers no artifact and signals no completion.
C15_EncoderFailureAbandons ==
  [][(lastEvent'.name = "exported" /\ recorderError)
     => \A k \in Len(log) + 1..Len(log') : log'[k][1] \notin {"download", "complete"}]_vars

\* C16: a scene whose narration cannot be decoded is held for the same
\* fallback duration as a scene without narration: every pending advance
\* timer was armed with the fallback duration.
C16_DecodeFailureAsNoNarration ==
  \A t \in BagToSet(timers) : t.delay = FallbackDelay

\* C17: whenever the scene list is non-empty the current index is within it.
C17_IndexInBounds ==
  Len(scenes) > 0 => (0 <= currentSceneIndex /\ currentSceneIndex < Len(scenes))

\* C18: the narration of a captured scene is decoded from that scene's own
\* payload; a buffer preloaded in Preview is never played in a capture run.
C18_CaptureDecodesOwn ==
  \A n \in AllNodes : (n.exp /\ Live(n)) => n.buf = n.scn

ErrorTimerCount(b) ==
  BagCardinality([t \in {u \in BagToSet(b) : u.delay = ErrorDelay} |-> b[t]])

\* the playback effect called playSceneAudio for a scene with a narration payload
PlaybackRan ==
  /\ isPlaying'
  /\ ~isExporting'
  /\ (currentSceneIndex' # currentSceneIndex \/ ~isPlaying)
  /\ scenes[currentSceneIndex' + 1].audio # "none"

\* C19: on a platform where stopping an ended or stopped source raises an
\* error, that error is swallowed: only a failed decode arms the error
\* timer, playSceneAudio still awaits the decode or starts the source, and a
\* pause still clears the reference.
C19_StopFailureSwallowed ==
  [][platform.stopThrows =>
       /\ lastEvent'.name # "decodeFailed"
            => ErrorTimerCount(timers') <= ErrorTimerCount(timers)
       /\ (PlaybackRan /\ voiceSourceRef.st \in {"pending", "done"})
            => \/ BagCardinality(calls') = BagCardinality(calls) + 1
               \/ (voiceSourceRef'.st = "playing" /\ voiceSourceRef' # voiceSourceRef)
       /\ (lastEvent'.name = "togglePlay" /\ isPlaying)
            => voiceSourceRef' = NoSource]_vars

\* C19 witness: scene 0's narration ended, playback moved to scene 1 and
\* playSceneAudio stopped the ended source, which raised an error here; the
\* decode of scene 1 is awaited and no error timer is armed.
C19_Witness ==
  /\ platform.stopThrows
  /\ lastEvent.name = "ended"
  /\ lastEvent.from = 0
  /\ currentSceneIndex = 1
  /\ isPlaying
  /\ voiceSourceRef.st = "done"
  /\ \E c \in BagToSet(calls) : c.idx = 1 /\ ~c.exp
  /\ ErrorTimerCount(timers) = 0

C21_DuckingFollowsNarration ==
  audioGraph.bgMusicSourceRef =>
    /\ PlayingCount > 0 => audioGraph.target = DuckFloor
    /\ (\A n \in AllNodes : ~Live(n)) => audioGraph.target = DuckRest

\* C22: the image transform of a drawn frame is the linear interpolation, by
\* the frame's progress, between the effect's start and end values: zoom-in
\* scale 1.0 to 1.15, zoom-out 1.15 to 1.0, pan-left scale 1.1 and
\* translateX 0 to -30, pan-right scale 1.1 and translateX 0 to +30; the
\* zooms keep translateX at 0.
KenBurnsRange ==
  [e \in Effects |->
     CASE e = "zoom-in"   -> [from |-> 100, to |-> 115, shift |-> 0]
       [] e = "zoom-out"  -> [from |-> 115, to |-> 100, shift |-> 0]
       [] e = "pan-left"  -> [from |-> 110, to |-> 110, shift |-> -30]
       [] e = "pan-right" -> [from |-> 110, to |-> 110, shift |-> 30]]

C24_PlaceholderDrawn ==
  [][(/\ lastEvent'.name = "ended"
      /\ lastEvent'.exp
      /\ ~lastEvent'.stopped
      /\ SceneAt(World, lastEvent'.idx).image # "ok")
     => canvas.scn = SceneAt(World, lastEvent'.idx).id]_vars

\* C25: in a capture run, when the fallback hold of a scene without
\* narration is over, the capture surface shows a frame drawn for that
\* scene.
C25_SilentSceneHasFrames ==
  [][(/\ lastEvent'.name = "timer"
      /\ lastEvent'.exp
      /\ SceneAt(World, lastEvent'.idx).audio = "none")
     => canvas.scn = SceneAt(World, lastEvent'.idx).id]_vars

\* C26: when the render loop of a scene has drawn its last frame, the
\* number of frames it drew is within one of ceil(D * FrameRate), D being
\* the length of the scene's narration.
C26_FrameCount ==
  canvas.last =>
    LET expected == (canvas.dur * FrameRate + 9) \div 10
    IN canvas.ticks \in (expected - 1)..(expected + 1)

\* the words of a sequence of runs, each with its highlight, letter case aside
RECURSIVE WordFlags(_)
WordFlags(spans) ==
  IF spans = <<>> THEN <<>>
  ELSE LET words == SelectSeq(Split(spans[1].text, " "), LAMBDA t : t # <<>>)
       IN [k \in 1..Len(words) |->
             [word |-> ToUpperCase(words[k]), isHighlight |-> spans[1].isHighlight]]
          \o WordFlags(Tail(spans))

\* C23: for the caption of a drawn frame, the words the canvas layout
\* highlights are the words the DOM renderer highlights (those between a
\* pair of asterisks, every word of a phrase included), no run of either
\* holds an asterisk, and in subtitle mode no run is highlighted.
C23_SameHighlights ==
  canvas.scn > 0 =>
    LET dom == renderDOMText(isKineticMode, SceneById(World, canvas.scn).text)
        all == {canvas.caption[k] : k \in 1..Len(canvas.caption)}
               \cup {dom[k] : k \in 1..Len(dom)}
    IN /\ WordFlags(canvas.caption) = WordFlags(dom)
       /\ \A r \in all : ~Includes(r.text, "*")
       /\ ~isKineticMode => \A r \in all : ~r.isHighlight

\* C27: a reorder made while index N is active, N still being an index of
\* the list, leaves the active index at N.
C27_ReorderKeepsIndex ==
  [][(lastEvent'.name = "reorder" /\ currentSceneIndex < Len(scenes'))
     => currentSceneIndex' = currentSceneIndex]_vars

\* the scenes of a list, as a bag
SceneBag(s) ==
  LET ids == {s[k] : k \in 1..Len(s)}
  IN [x \in ids |-> Cardinality({k \in 1..Len(s) : s[k] = x})]

\* C28: handleReorder(fromIndex, toIndex) keeps the length of the list and
\* returns a permutation of it, whatever the two arguments are; with toIndex
\* out of range the list and the index are left as they were.
C28_ReorderPermutes ==
  [][lastEvent'.name = "reorderCall"
     => /\ Len(scenes') = Len(scenes)
        /\ SceneBag(scenes') = SceneBag(scenes)
        /\ lastEvent'.idx \notin 0..Len(scenes) - 1
             => (scenes' = scenes /\ currentSceneIndex' = currentSceneIndex)]_vars

\* this step starts a narration for a scene whose preload has failed before
StartsAfterFailedPreload ==
  /\ voiceSourceRef' # voiceSourceRef
  /\ voiceSourceRef'.st = "playing"
  /\ \E k \in 1..Len(log) : log[k] = <<"preloadFailed", voiceSourceRef'.scn>>

InFlight ==
  UNION {{[kind |-> k, pos |-> r.pos] : k \in r.pending \cap {"image", "audio"}} :
           r \in BagToSet(runs)}

\* the number of requests in flight, over all handleGenerate calls
InFlightCount ==
  LET rs == BagToSet(runs)
      weight == [r \in rs |-> runs[r] * Cardinality(r.pending \cap {"image", "audio"})]
      Sum[S \in SUBSET rs] ==
        IF S = {} THEN 0
        ELSE LET x == CHOOSE x \in S : TRUE IN weight[x] + Sum[S \ {x}]
  IN Sum[rs]

\* C30: at most one generation request is in flight; the audio request of
\* a scene starts in the step in which the scene's image request settles;
\* the image request of a scene after the first starts in the step in which
\* the pause that follows the audio request of the scene before it is over.
C30_SerialGeneration ==
  [][/\ InFlightCount' <= 1
     /\ \A q \in InFlight' \ InFlight :
          /\ q.kind = "audio"
               => /\ [kind |-> "image", pos |-> q.pos] \in InFlight
                  /\ lastEvent'.name = "imageSettled"
          /\ (q.kind = "image" /\ q.pos > 1)
               => /\ lastEvent'.name = "pauseElapsed"
                  /\ \E r \in BagToSet(runs) : r.pos = q.pos - 1 /\ r.pending = {"pause"}]_vars

\* the audio request of the second scene is in flight
C30_Witness ==
  \E r \in BagToSet(runs) : r.pos = 2 /\ r.pending = {"audio"}

\* number of times the operation was invoked by the call
Invocations(r) == Cardinality({k \in 1..Len(r.trace) : r.trace[k].ev = "invoke"})

\* the operation resolved at the last event and the call returned its value
ReturnsFirstSuccess(r) ==
  \A k \in 1..Len(r.trace) :
    r.trace[k].ev = "ok" => /\ k = Len(r.trace)
                            /\ r.awaits = "nothing"
                            /\ r.outcome.kind = "returned"
                            /\ r.outcome.value = Data

\* a call that has ended returned a value or threw the error of its last attempt
EndsWithValueOrError(r) ==
  r.awaits = "nothing" =>
    \/ r.outcome.kind = "returned"
    \/ /\ r.outcome.kind = "threw"
       /\ r.trace[Len(r.trace)].ev = "error"
       /\ r.trace[Len(r.trace)].error = r.outcome.error

\* C31: withRetry with retries >= 1 invokes the operation at most `retries`
\* times, returns the value of the first successful invocation without
\* invoking it again, never leaves its loop by the "Unexpected retry loop
\* exit" error, and every call ends, with a value or with the error the
\* operation threw.
C31_WithRetryEnds ==
  /\ [](retry.caller # "none" =>
          /\ Invocations(retry) <= retry.retries
          /\ ReturnsFirstSuccess(retry)
          /\ retry.outcome.kind # "unexpected"
          /\ EndsWithValueOrError(retry))
  /\ (retry.awaits # "nothing") ~> (retry.awaits = "nothing")

\* a call used all its attempts and threw the last error
C31_Witness ==
  /\ retry.caller = "withRetry"
  /\ retry.retries = MaxRetries
  /\ Invocations(retry) = MaxRetries
  /\ retry.outcome.kind = "threw"

\* C32: an error that is not a rate-limit error is non-retriable: the
\* operation is not invoked again after it, and the call ends at once with the
\* fallback value if one was given, and with the error otherwise.
C32_NonRetriable ==
  \A k \in 1..Len(retry.trace) :
    (retry.trace[k].ev = "error" /\ ~isRateLimit(retry.trace[k].error))
      => /\ k = Len(retry.trace)
         /\ retry.awaits = "nothing"
         /\ IF retry.fallbackValue # NoFallback
            THEN retry.outcome.kind = "returned" /\ retry.outcome.value = retry.fallbackValue
            ELSE retry.outcome.kind = "threw" /\ retry.outcome.error = retry.trace[k].error

\* C33: a failed attempt k that is not the last is followed by exactly one
\* wait of delay * 2^(k-1) and then by attempt k+1; no attempt follows a
\* failure without a wait, and no wait follows the last attempt.
C33_Backoff ==
  \A k \in 1..Len(retry.trace) :
    LET ev == retry.trace[k] IN
    /\ (ev.ev = "error" /\ k < Len(retry.trace))
         => /\ retry.trace[k + 1].ev = "wait"
            /\ retry.trace[k + 1].ms = retry.delay * 2 ^ ev.i
    /\ ev.ev = "wait"
         => /\ retry.trace[k - 1].ev = "error"
            /\ ev.i < retry.retries - 1
            /\ k < Len(retry.trace) => retry.trace[k + 1].ev = "invoke"
    /\ (ev.ev = "invoke" /\ k > 1) => retry.trace[k - 1].ev = "wait"

\* `!scene.audioData`: the player takes a scene as one without narration
noNarration(audioData) == audioData \in {EmptyString, NoFallback}

\* C34: generateSceneImage and generateSceneAudio never reject: whatever the
\* underlying request throws, generateSceneImage resolves to a data URL or to
\* the placeholder URL and generateSceneAudio to audio data or to the empty
\* string, which the player takes as no narration.
C34_NeverRejects ==
  retry.awaits = "nothing" =>
    /\ retry.caller = "generateSceneImage"
         => /\ retry.outcome.kind = "returned"
            /\ retry.outcome.value \in {Data, FallbackImage}
            /\ Invocations(retry) < DefaultRetries => retry.outcome.value = Data
    /\ retry.caller = "generateSceneAudio"
         => /\ retry.outcome.kind = "returned"
            /\ retry.outcome.value \in {Data, EmptyString}
            /\ Invocations(retry) < DefaultRetries => retry.outcome.value = Data
            /\ retry.outcome.value # Data => noNarration(retry.outcome.value)

\* generateSceneAudio ended with the empty string after three failed attempts
C34_Witness ==
  /\ retry.caller = "generateSceneAudio"
  /\ retry.awaits = "nothing"
  /\ Invocations(retry) = DefaultRetries
  /\ retry.outcome.value = EmptyString

\* the changes of status that handleGenerate makes (for a script without
\* scenes setStatus(GENERATING_ASSETS) and setStatus(READY) fall into one step)
StatusFlow ==
  {<<"IDLE", "SCRIPTING">>, <<"READY", "SCRIPTING">>, <<"SCRIPTING", "GENERATING_ASSETS">>,
   <<"SCRIPTING", "IDLE">>, <<"GENERATING_ASSETS", "READY">>}

\* C35: handleGenerate moves the status IDLE/READY -> SCRIPTING ->
\* GENERATING_ASSETS -> READY; a failed script returns it to IDLE with the
\* error set and no scenes; once the script succeeded the run reaches READY,
\* and at READY no scene has a generating flag set and progress is 100.
C35_StatusFlow ==
  /\ [][/\ status' # status
             => \/ <<status, status'>> \in StatusFlow
                \/ <<status, status'>> = <<"SCRIPTING", "READY">> /\ scenes' = <<>>
        /\ (status = "SCRIPTING" /\ status' = "IDLE") => (error' # FALSE /\ scenes' = <<>>)]_vars
  /\ [](status = "READY" =>
          /\ \A k \in 1..Len(scenes) :
               ~scenes[k].isGeneratingImage /\ ~scenes[k].isGeneratingAudio
          /\ progress.num = progress.den)
  /\ (status = "GENERATING_ASSETS") ~> (status = "READY")

\* the ids of a scene list, in order
Ids(s) == [k \in 1..Len(s) |-> s[k].id]

\* the scene an asset update of this step is for: the one the loop is at
\* when a request settles, the next one when the pause ends
UpdatedIds ==
  {r.ids[r.pos] : r \in {q \in BagToSet(runs) : q.pending \cap {"image", "audio"} # {}}}
  \cup {r.ids[r.pos + 1] : r \in {q \in BagToSet(runs) :
                                    q.pending = {"pause"} /\ q.pos < Len(q.ids)}}

\* C36: an asset update for scene id X changes only the scene whose id is X
\* and leaves every other scene, the order and the length of the list as
\* they are, also when the list was reordered while the request was under way.
C36_UpdateById ==
  [][lastEvent'.name \in {"imageSettled", "audioSettled", "pauseElapsed"}
       => /\ Ids(scenes') = Ids(scenes)
          /\ \A k \in 1..Len(scenes) :
               scenes'[k] # scenes[k] => scenes[k].id \in UpdatedIds
          /\ lastEvent'.name = "imageSettled"
               => \E k \in 1..Len(scenes) :
                    /\ scenes[k].id \in UpdatedIds
                    /\ scenes[k].isGeneratingImage
                    /\ ~scenes'[k].isGeneratingImage
                    /\ scenes'[k].isGeneratingAudio]_vars

\* the image of the first scene arrived after that scene had been moved away
\* from the head of the list
C36_Witness ==
  /\ lastEvent.name = "imageSettled"
  /\ lastEvent.idx = 1
  /\ scenes[1].id # 1
  /\ \E k \in 2..Len(scenes) :
       scenes[k].id = 1 /\ scenes[k].image # "absent" /\ scenes[k].isGeneratingAudio

\* a narration source started by Preview playback is sounding
PreviewNarration == \E n \in AllNodes : n.st = "playing" /\ ~n.exp

\* C37: a capture run is started only from status READY, and while it is
\* recording no Preview narration is active: one that plays when export is
\* requested is stopped before the capture narration of scene 0 starts, and
\* Preview playback does not start again before the run has completed.
C37_CaptureExcludesPreview ==
  /\ [][(isExporting' /\ ~isExporting) => status = "READY"]_vars
  /\ [](mediaRecorderRef = "recording" => ~PreviewNarration)

\* the playSceneAudio calls that this step suspended at their decode
NewCalls == {c \in BagToSet(calls') : CopiesIn(c, calls') > CopiesIn(c, calls)}

\* this step started a narration source
StartedNow == voiceSourceRef' # voiceSourceRef /\ voiceSourceRef'.st = "playing"

\* C38: the mute switch affects Preview output only: in a capture run the
\* narration gain of every scene is 1.0 whatever the mute state, and in
\* Preview the narration gain of a scene is 0 exactly when mute was on at the
\* time playSceneAudio was called for it.
C38_MutePreviewOnly ==
  /\ [](\A n \in AllNodes :
          n.st = "playing" => /\ n.exp => n.gain = 1
                              /\ ~n.exp => (n.gain = 0 <=> n.muted))
  /\ [][/\ \A c \in NewCalls : c.muted = isMuted
        /\ (StartedNow /\ lastEvent'.name # "decoded") => voiceSourceRef'.muted = isMuted
        /\ (StartedNow /\ lastEvent'.name = "decoded")
             => \E c \in BagToSet(calls) :
                  /\ CopiesIn(c, calls') < CopiesIn(c, calls)
                  /\ c.muted = voiceSourceRef'.muted
                  /\ c.exp = voiceSourceRef'.exp]_vars

\* a capture narration plays at full gain while mute is on
C38_Witness ==
  /\ isMuted
  /\ mediaRecorderRef = "recording"
  /\ voiceSourceRef.st = "playing" /\ voiceSourceRef.exp /\ voiceSourceRef.gain = 1

====
